---- MODULE Spec2Model ----
(***************************************************************************)
(* A model of tensorshaper.py: axis-index normalisation, the swap and      *)
(* pop-insert permutation builders, and the swap / popinsert / pack /      *)
(* unpack operations with their four fixed-axis wrappers.                  *)
(*                                                                         *)
(* An array is represented by its shape, a sequence of axis sizes.  Axis   *)
(* numbers are the source's 0-based values; TLA+ sequences are 1-based, so *)
(* the entry of axis k is s[k + 1].  Every function of the source returns  *)
(* a record [status, out, lib]: status is "ok" or the name of the Python   *)
(* exception raised, out is the returned value, lib is the sequence of     *)
(* calls made to the array library (transpose / reshape) before returning. *)
(***************************************************************************)
EXTENDS Integers, Sequences, FiniteSets

VARIABLES arr, last

vars == <<arr, last>>

\* Largest rank of an input array.
MaxRank == 4

\* Axis sizes of input arrays range over 1..MaxSize; so does the inner
\* size handed to unpack_axis.
MaxSize == 2

Ranks == 0..MaxRank

Sizes == 1..MaxSize

\* All shapes of rank 0..MaxRank over Sizes.
Shapes == UNION {[1..r -> Sizes] : r \in Ranks}

\* Raw axis arguments tried on an array of rank r: the whole accepted range
\* [-r, r-1] and one value beyond it on either side.
AxisArgs(r) == (-(r + 1))..r

-----------------------------------------------------------------------------
(* Python list primitives used by the source *)

\* list(range(r))
Range(r) == [k \in 1..r |-> k - 1]

\* Python's clamping of a slice or insert position i for a list of length n.
Clamp(i, n) ==
    LET j == IF i < 0 THEN i + n ELSE i
    IN IF j < 0 THEN 0 ELSE IF j > n THEN n ELSE j

\* s after s.pop(i), for 0 <= i < len(s).
PopAt(s, i) == [k \in 1..(Len(s) - 1) |-> IF k <= i THEN s[k] ELSE s[k + 1]]

\* s after s.insert(i, x).
InsertAt(s, i, x) ==
    LET p == Clamp(i, Len(s))
    IN [k \in 1..(Len(s) + 1) |->
          IF k <= p THEN s[k] ELSE IF k = p + 1 THEN x ELSE s[k - 1]]

\* s after del s[a:b].
DelSlice(s, a, b) ==
    LET lo == Clamp(a, Len(s))
        hi == Clamp(b, Len(s))
        w  == IF hi > lo THEN hi - lo ELSE 0
    IN [k \in 1..(Len(s) - w) |-> IF k <= lo THEN s[k] ELSE s[k + w]]

\* np.asarray(s)[perm].tolist(), and the shape of a transposed array.
Take(s, perm) == [k \in 1..Len(perm) |-> s[perm[k] + 1]]

RECURSIVE Prod(_)
Prod(s) == IF s = <<>> THEN 1 ELSE Head(s) * Prod(Tail(s))

Ok(v, calls) == [status |-> "ok", out |-> v, lib |-> calls]

Raise(e, calls) == [status |-> e, out |-> <<>>, lib |-> calls]

-----------------------------------------------------------------------------
(* The array library *)

IsPermutation(p, r) ==
    /\ Len(p) = r
    /\ \A k \in 0..(r - 1) : \E i \in 1..r : p[i] = k

\* lib.transpose(arr, perm): axis i of the result is axis perm[i] of arr.
Transpose(s, perm) ==
    IF IsPermutation(perm, Len(s))
    THEN Ok(Take(s, perm), <<[fn |-> "transpose", arg |-> perm]>>)
    ELSE Raise("TransposeError", <<[fn |-> "transpose", arg |-> perm]>>)

\* lib.reshape(arr, shape): at most one entry -1, inferred from the element
\* count; fails when no exact solution exists.
Reshape(s, ns) ==
    LET call  == <<[fn |-> "reshape", arg |-> ns]>>
        wild  == {k \in DOMAIN ns : ns[k] = -1}
        known == Prod([k \in DOMAIN ns |-> IF k \in wild THEN 1 ELSE ns[k]])
        total == Prod(s)
    IN IF Cardinality(wild) > 1 \/ (\E k \in DOMAIN ns : ns[k] < -1)
       THEN Raise("ReshapeError", call)
       ELSE IF wild = {}
       THEN IF known = total THEN Ok(ns, call) ELSE Raise("ReshapeError", call)
       ELSE IF known = 0 \/ total % known # 0
       THEN Raise("ReshapeError", call)
       ELSE Ok([k \in DOMAIN ns |-> IF k \in wild THEN total \div known ELSE ns[k]],
               call)

-----------------------------------------------------------------------------
(* tensorshaper.py *)

\* rank(inp)
rank(s) == Len(s)

\* A slip: the second assignment (permute[idx1] = idx0) left out.
get_swapping_permutation_oneway(r, idx0, idx1) ==
    IF idx0 < 0 \/ idx1 < 0 THEN Raise("AssertionError", <<>>)
    ELSE IF idx0 >= r \/ idx1 >= r THEN Raise("IndexError: list assignment", <<>>)
    ELSE Ok([Range(r) EXCEPT ![idx0 + 1] = idx1], <<>>)

get_swapping_permutation(r, idx0, idx1) ==
    IF idx0 < 0 \/ idx1 < 0 THEN Raise("AssertionError", <<>>)
    ELSE IF idx0 >= r \/ idx1 >= r THEN Raise("IndexError: list assignment", <<>>)
    ELSE LET p0 == [Range(r) EXCEPT ![idx0 + 1] = idx1]
         IN Ok([p0 EXCEPT ![idx1 + 1] = idx0], <<>>)

\* A slip: abs(idx) in place of r + idx.
pidx_abs(r, idx) ==
    IF r < 1 THEN Raise("ValueError: R is not positive", <<>>)
    ELSE IF ~(-r <= idx /\ idx <= r - 1) THEN Raise("IndexError: Index is OOB", <<>>)
    ELSE IF idx < 0 THEN Ok(-idx, <<>>)
    ELSE Ok(idx, <<>>)

\* A slip: the negative branch left out, the index returned as given.
pidx_asgiven(r, idx) ==
    IF r < 1 THEN Raise("ValueError: R is not positive", <<>>)
    ELSE IF ~(-r <= idx /\ idx <= r - 1) THEN Raise("IndexError: Index is OOB", <<>>)
    ELSE Ok(idx, <<>>)

pidx(r, idx) ==
    IF r < 1 THEN Raise("ValueError: R is not positive", <<>>)
    ELSE IF ~(-r <= idx /\ idx <= r - 1) THEN Raise("IndexError: Index is OOB", <<>>)
    ELSE IF idx < 0 THEN Ok(r + idx, <<>>)
    ELSE Ok(idx, <<>>)

\* A variant: the popped axis reinserted before the axis that was at idx1,
\* i.e. one place earlier when idx0 precedes idx1.
get_popinsert_permutation_before(r, idx0, idx1) ==
    LET n0 == pidx(r, idx0)
        n1 == pidx(r, idx1)
    IN IF n0.status # "ok" THEN n0
       ELSE IF n1.status # "ok" THEN n1
       ELSE Ok(InsertAt(PopAt(Range(r), n0.out),
                        IF n0.out < n1.out THEN n1.out - 1 ELSE n1.out, n0.out), <<>>)

get_popinsert_permutation(r, idx0, idx1) ==
    LET n0 == pidx(r, idx0)
        n1 == pidx(r, idx1)
    IN IF n0.status # "ok" THEN n0
       ELSE IF n1.status # "ok" THEN n1
       ELSE Ok(InsertAt(PopAt(Range(r), n0.out), n1.out, n0.out), <<>>)

swap_axes(s, axis0, axis1) ==
    LET r  == rank(s)
        n0 == pidx(r, axis0)
        n1 == pidx(r, axis1)
    IN IF n0.status # "ok" THEN n0
       ELSE IF n1.status # "ok" THEN n1
       ELSE IF ~(n0.out <= r - 1) \/ ~(n1.out <= r - 1)
       THEN Raise("AssertionError: rank oob", <<>>)
       ELSE LET p == get_swapping_permutation(r, n0.out, n1.out)
            IN IF p.status # "ok" THEN p ELSE Transpose(s, p.out)

popinsert_axes(s, axis0, axis1) ==
    LET r == rank(s)
    IN IF ~(-r <= axis0 /\ axis0 <= r - 1) THEN Raise("AssertionError: rank oob", <<>>)
       ELSE IF ~(-r <= axis1 /\ axis1 <= r - 1) THEN Raise("AssertionError: rank oob", <<>>)
       ELSE LET p == get_popinsert_permutation(r, axis0, axis1)
            IN IF p.status # "ok" THEN p ELSE Transpose(s, p.out)

\* axis_target after line 149: r - abs(axis_target) when negative.
PackTarget(r, axis_target) ==
    IF axis_target < 0 THEN r - (-axis_target) ELSE axis_target

\* A slip: the forward adjustment left out.
PackFwd_never(axis_source, target) == 0

\* fwd of line 150 (axis_source as given, target normalised), as the integer
\* Python subtracts on line 151.
PackFwd(axis_source, target) == IF axis_source < target THEN 1 ELSE 0

\* pretarget of line 151.
PackPretarget(r, axis_source, axis_target) ==
    PackTarget(r, axis_target) - PackFwd(axis_source, PackTarget(r, axis_target))

pack_to_axis(s, axis_source, axis_target) ==
    LET r == rank(s)
    IN IF ~(-r <= axis_source /\ axis_source <= r - 1)
       THEN Raise("AssertionError: axis source oob", <<>>)
       ELSE IF ~(axis_target # axis_source)
       THEN Raise("AssertionError: identical axes", <<>>)
       ELSE IF ~(-r + 1 <= axis_target /\ axis_target <= r - 1)
       THEN Raise("AssertionError: axis target oob", <<>>)
       ELSE LET pretarget == PackPretarget(r, axis_source, axis_target)
                cycled    == popinsert_axes(s, axis_source, pretarget)
            IN IF cycled.status # "ok" THEN cycled
               ELSE LET permuter == get_popinsert_permutation(r, axis_source, pretarget)
                    IN IF permuter.status # "ok"
                       THEN [permuter EXCEPT !.lib = cycled.lib]
                       ELSE LET s_permute ==
                                    InsertAt(DelSlice(Take(s, permuter.out),
                                                      pretarget, pretarget + 2),
                                             pretarget, -1)
                                res == Reshape(cycled.out, s_permute)
                            IN [res EXCEPT !.lib = cycled.lib \o res.lib]

\* A slip: the two inserted entries in the other order, [axis1_size, -1].
unpack_axis_swapped(s, axis_source, axis1_size) ==
    LET r == rank(s)
        n == pidx(r, axis_source)
    IN IF n.status # "ok" THEN n
       ELSE IF ~(0 <= n.out /\ n.out <= r - 1)
       THEN Raise("AssertionError: axis source oob", <<>>)
       ELSE LET s1 == PopAt(s, n.out)
                s_unpack == SubSeq(s1, 1, n.out) \o <<axis1_size, -1>>
                              \o SubSeq(s1, n.out + 1, Len(s1))
            IN Reshape(s, s_unpack)

unpack_axis(s, axis_source, axis1_size) ==
    LET r == rank(s)
        n == pidx(r, axis_source)
    IN IF n.status # "ok" THEN n
       ELSE IF ~(0 <= n.out /\ n.out <= r - 1)
       THEN Raise("AssertionError: axis source oob", <<>>)
       ELSE LET s1 == PopAt(s, n.out)
                s_unpack == SubSeq(s1, 1, n.out) \o <<-1, axis1_size>>
                              \o SubSeq(s1, n.out + 1, Len(s1))
            IN Reshape(s, s_unpack)

frontpack(s) == pack_to_axis(s, 0, 1)

frontswap(s) == swap_axes(s, 0, 1)

\* A slip: the two arguments exchanged.
backpack_exchanged(s) == pack_to_axis(s, -1, -2)

backpack(s) == pack_to_axis(s, -2, -1)

backswap(s) == swap_axes(s, -2, -1)

-----------------------------------------------------------------------------
(* The state machine: an array is constructed, then one function of the    *)
(* module is called on it.  last records the call and what it returned;    *)
(* arr becomes the returned array when an array operation succeeds.  The   *)
(* returned value is recorded as a sequence: a shape, a permutation, or    *)
(* the one integer pidx returns.                                           *)

NoCall == [op |-> "none", args |-> <<>>, in |-> <<>>, status |-> "ok",
           out |-> <<>>, lib |-> <<>>]

Called(name, a, res) ==
    [op |-> name, args |-> a, in |-> arr, status |-> res.status,
     out |-> res.out, lib |-> res.lib]

\* An array operation: the array becomes the result unless the call raised.
ArrayCall(name, a, res) ==
    /\ last.op = "none"
    /\ last' = Called(name, a, res)
    /\ arr' = IF res.status = "ok" THEN res.out ELSE arr

\* A call of one of the pure helpers: the array is untouched.
HelperCall(name, a, res) ==
    /\ last.op = "none"
    /\ last' = Called(name, a, res)
    /\ arr' = arr

Init ==
    /\ arr \in Shapes
    /\ last = NoCall

Pidx ==
    \E idx \in AxisArgs(rank(arr)) :
        LET res == pidx(rank(arr), idx)
        IN HelperCall("pidx", <<rank(arr), idx>>,
                      IF res.status = "ok" THEN [res EXCEPT !.out = <<res.out>>] ELSE res)

GetSwappingPermutation ==
    \E idx0, idx1 \in (-1)..rank(arr) :
        HelperCall("get_swapping_permutation", <<rank(arr), idx0, idx1>>,
                   get_swapping_permutation(rank(arr), idx0, idx1))

GetPopinsertPermutation ==
    \E idx0, idx1 \in AxisArgs(rank(arr)) :
        HelperCall("get_popinsert_permutation", <<rank(arr), idx0, idx1>>,
                   get_popinsert_permutation(rank(arr), idx0, idx1))

SwapAxes ==
    \E axis0, axis1 \in AxisArgs(rank(arr)) :
        ArrayCall("swap_axes", <<axis0, axis1>>, swap_axes(arr, axis0, axis1))

PopinsertAxes ==
    \E axis0, axis1 \in AxisArgs(rank(arr)) :
        ArrayCall("popinsert_axes", <<axis0, axis1>>, popinsert_axes(arr, axis0, axis1))

PackToAxis ==
    \E axis_source, axis_target \in AxisArgs(rank(arr)) :
        ArrayCall("pack_to_axis", <<axis_source, axis_target>>,
                  pack_to_axis(arr, axis_source, axis_target))

UnpackAxis ==
    \E axis_source \in AxisArgs(rank(arr)), axis1_size \in Sizes :
        ArrayCall("unpack_axis", <<axis_source, axis1_size>>,
                  unpack_axis(arr, axis_source, axis1_size))

Frontpack == ArrayCall("frontpack", <<>>, frontpack(arr))

Frontswap == ArrayCall("frontswap", <<>>, frontswap(arr))

Backpack == ArrayCall("backpack", <<>>, backpack(arr))

Backswap == ArrayCall("backswap", <<>>, backswap(arr))

Next ==
    \/ Pidx
    \/ GetSwappingPermutation
    \/ GetPopinsertPermutation
    \/ SwapAxes
    \/ PopinsertAxes
    \/ PackToAxis
    \/ UnpackAxis
    \/ Frontpack
    \/ Frontswap
    \/ Backpack
    \/ Backswap

Spec == Init /\ [][Next]_vars

-----------------------------------------------------------------------------
(* Vocabulary of the properties *)

\* The rank of the array the last call was made on.
InRank == Len(last.in)

\* idx is a valid raw axis index for rank r.
InRange(r, idx) == -r <= idx /\ idx <= r - 1

\* The axis a valid raw index names.
AxisOf(r, idx) == IF idx < 0 THEN r + idx ELSE idx

\* The index pairs pack_to_axis accepts.
PackAccepts(r, src, tgt) ==
    /\ InRange(r, src)
    /\ -r + 1 <= tgt /\ tgt <= r - 1
    /\ tgt # src

\* The axes 0..r-1 without axis a, in increasing order.
OtherAxes(r, a) == [k \in 1..(r - 1) |-> IF k - 1 < a THEN k - 1 ELSE k]

\* Shape s with the entry of axis a removed and the entry of axis b
\* replaced by size(a) * size(b).
Folded(s, a, b) ==
    LET rest == OtherAxes(Len(s), a)
    IN [k \in 1..(Len(s) - 1) |->
          IF rest[k] = b THEN s[a + 1] * s[b + 1] ELSE s[rest[k] + 1]]

\* The axis order with axis a moved to sit immediately before axis b, the
\* other axes in their original order (a # b).
MovedBefore(r, a, b) ==
    LET rest == OtherAxes(r, a)
        at   == IF b < a THEN b + 1 ELSE b
    IN [k \in 1..r |->
          IF k < at THEN rest[k] ELSE IF k = at THEN a ELSE rest[k - 1]]

\* The last call was pack_to_axis on rank >= 2 with an accepted index pair.
PackCalled ==
    /\ last.op = "pack_to_axis"
    /\ InRank >= 2
    /\ PackAccepts(InRank, last.args[1], last.args[2])

PackSource == AxisOf(InRank, last.args[1])

PackDest == AxisOf(InRank, last.args[2])

-----------------------------------------------------------------------------
(* C1.  For every shape of rank r >= 2 and every index pair pack_to_axis   *)
(* accepts (the two naming different axes), pack_to_axis succeeds and its  *)
(* result has rank r - 1 and is the input shape with the source axis's     *)
(* entry removed and the target axis's entry replaced by                   *)
(* size(source) * size(target).                                            *)
C1_PackFoldsSourceIntoTarget ==
    (PackCalled /\ PackSource # PackDest) =>
        /\ last.status = "ok"
        /\ Len(last.out) = InRank - 1
        /\ last.out = Folded(last.in, PackSource, PackDest)

(* C2.  pack_to_axis fails with the identical-axes error, having issued no *)
(* transpose or reshape, whenever its two indices, each within the range   *)
(* pack_to_axis admits for it, name the same axis (equal integers, or i    *)
(* and i - r).                                                             *)
C2_SameAxisIsRejected ==
    ( /\ last.op = "pack_to_axis"
      /\ InRank >= 1
      /\ InRange(InRank, last.args[1])
      /\ -InRank + 1 <= last.args[2] /\ last.args[2] <= InRank - 1
      /\ AxisOf(InRank, last.args[1]) = AxisOf(InRank, last.args[2]) )
    => /\ last.status = "AssertionError: identical axes"
       /\ last.lib = <<>>

(* C3.  popinsert_axes(arr, axis0, axis1) with in-range indices naming     *)
(* different axes transposes so that the axis originally at axis0 is       *)
(* directly followed by the axis originally at axis1.                      *)
C3_PopinsertPutsAxisBefore ==
    ( /\ last.op = "popinsert_axes"
      /\ InRange(InRank, last.args[1]) /\ InRange(InRank, last.args[2])
      /\ AxisOf(InRank, last.args[1]) # AxisOf(InRank, last.args[2]) )
    => /\ last.status = "ok"
       /\ Len(last.lib) = 1 /\ last.lib[1].fn = "transpose"
       /\ \E k \in 1..(InRank - 1) :
             /\ last.lib[1].arg[k] = AxisOf(InRank, last.args[1])
             /\ last.lib[1].arg[k + 1] = AxisOf(InRank, last.args[2])

\* The shape a pack / unpack round trip is to restore: the input shape of
\* the pack with the source entry moved immediately before the target entry.
RoundTripShape == Take(last.in, MovedBefore(InRank, PackSource, PackDest))

(* C4 as stated.  After pack_to_axis on rank >= 2 with an accepted pair,   *)
(* unpack_axis at axis_target's original position with inner size          *)
(* size(axis_target) succeeds and yields the original shape with the       *)
(* source entry moved immediately before the target entry.                 *)
C4_RoundTripAtTargetPosition ==
    (PackCalled /\ PackSource # PackDest) =>
        /\ last.status = "ok"
        /\ LET u == unpack_axis(arr, PackDest, last.in[PackDest + 1])
           IN /\ u.status = "ok"
              /\ u.out = RoundTripShape

\* The position of the merged axis in the packed array.
MergedAt == IF PackSource < PackDest THEN PackDest - 1 ELSE PackDest

\* The accepted pairs on which line 150's comparison of the raw source with
\* the normalised target agrees with the order of the two axes.
PackOrderRead ==
    /\ PackCalled
    /\ PackSource # PackDest
    /\ (last.args[1] >= 0 \/ PackSource < PackDest)

(* C4 amended.  After pack_to_axis on rank >= 2 with an accepted pair      *)
(* naming different axes, the source non-negative or preceding the target, *)
(* unpack_axis at the merged axis's position (the target's position, less  *)
(* one when the source precedes the target) with inner size                *)
(* size(axis_target) succeeds and yields the original shape with the       *)
(* source entry moved immediately before the target entry.                 *)
C4_RoundTripAtMergedPosition ==
    PackOrderRead =>
        /\ last.status = "ok"
        /\ LET u == unpack_axis(arr, MergedAt, last.in[PackDest + 1])
           IN /\ u.status = "ok"
              /\ Len(u.out) = InRank
              /\ u.out = RoundTripShape

\* A pack that moved the source forward past another axis, on a shape whose
\* round trip is not the identity.
C4_Witness ==
    /\ PackOrderRead
    /\ last.status = "ok"
    /\ InRank >= 3
    /\ PackSource + 1 < PackDest
    /\ RoundTripShape # last.in
    /\ unpack_axis(arr, MergedAt, last.in[PackDest + 1]).out # arr

(* C5.  get_swapping_permutation(r, idx0, idx1) with idx0, idx1 in         *)
(* 0..r-1 is a bijection on 0..r-1 whose composition with itself is the    *)
(* identity; and swap_axes applied again with the same raw indices to the  *)
(* result of swap_axes gives back the original shape.                      *)
C5_SwapIsSelfInverse ==
    /\ ( /\ last.op = "get_swapping_permutation"
         /\ last.args[1] >= 1
         /\ last.args[2] \in 0..(last.args[1] - 1)
         /\ last.args[3] \in 0..(last.args[1] - 1) )
       => /\ last.status = "ok"
          /\ IsPermutation(last.out, last.args[1])
          /\ Take(last.out, last.out) = Range(last.args[1])
    /\ ( /\ last.op = "swap_axes"
         /\ InRank >= 1
         /\ InRange(InRank, last.args[1]) /\ InRange(InRank, last.args[2]) )
       => /\ last.status = "ok"
          /\ LET again == swap_axes(arr, last.args[1], last.args[2])
             IN /\ again.status = "ok"
                /\ again.out = last.in

\* A swap through a negative index that changed the shape.
C5_Witness ==
    /\ last.op = "swap_axes"
    /\ last.status = "ok"
    /\ InRank >= 3
    /\ last.args[1] < 0 /\ last.args[2] >= 0
    /\ arr # last.in
    /\ swap_axes(arr, last.args[1], last.args[2]).out = last.in

\* The last call was pidx(r, idx) with r >= 1 and idx in [-r, r-1].
PidxCalled ==
    /\ last.op = "pidx"
    /\ last.args[1] >= 1
    /\ InRange(last.args[1], last.args[2])

(* C6.  For r >= 1 and idx in [-r, r-1], pidx(r, idx) returns a value in   *)
(* [0, r-1]: idx itself when idx >= 0, r + idx when idx < 0; and for       *)
(* idx >= 0, pidx(r, idx - r) returns the same value.                      *)
C6_PidxNormalises ==
    PidxCalled =>
        LET r == last.args[1]
            idx == last.args[2]
        IN /\ last.status = "ok"
           /\ last.out[1] \in 0..(r - 1)
           /\ last.out[1] = IF idx >= 0 THEN idx ELSE r + idx
           /\ idx >= 0 => pidx(r, idx - r) = Ok(last.out[1], <<>>)

\* A negative index normalised.
C6_Witness ==
    /\ PidxCalled
    /\ last.args[1] >= 3
    /\ last.args[2] < -1
    /\ last.status = "ok"
    /\ last.out[1] > 0

\* The valid raw indices that pidx sends to the value it returned last.
SameAxisIndices ==
    {j \in (-last.args[1])..(last.args[1] - 1) :
        pidx(last.args[1], j) = Ok(last.out[1], <<>>)}

\* Every value of 0..r-1 is returned for some valid raw index.
PidxOnto ==
    \A v \in 0..(last.args[1] - 1) :
        \E j \in (-last.args[1])..(last.args[1] - 1) :
            pidx(last.args[1], j) = Ok(v, <<>>)

(* C7 as stated.  For r >= 1, pidx(r, .) is a bijection from [-r, r-1]     *)
(* onto [0, r-1]: onto, and no two distinct valid raw indices normalise to *)
(* the same value.                                                         *)
C7_PidxBijection ==
    PidxCalled =>
        /\ last.status = "ok"
        /\ PidxOnto
        /\ SameAxisIndices = {last.args[2]}

(* C7 amended.  For r >= 1, pidx(r, .) maps [-r, r-1] onto [0, r-1] two to *)
(* one: two valid raw indices normalise to the same value exactly when     *)
(* they are equal or differ by r.                                          *)
C7_PidxTwoToOne ==
    PidxCalled =>
        /\ last.status = "ok"
        /\ PidxOnto
        /\ SameAxisIndices =
              {j \in (-last.args[1])..(last.args[1] - 1) :
                  j = last.args[2] \/ j = last.args[2] - last.args[1]
                                   \/ j = last.args[2] + last.args[1]}
        /\ Cardinality(SameAxisIndices) = 2

\* A non-negative index whose negative alias normalises to the same value.
C7_Witness ==
    /\ PidxCalled
    /\ last.status = "ok"
    /\ last.args[1] >= 2
    /\ last.args[2] >= 1
    /\ (last.args[2] - last.args[1]) \in SameAxisIndices

\* The last call was unpack_axis on rank >= 1 with an in-range axis.
UnpackCalled ==
    /\ last.op = "unpack_axis"
    /\ InRank >= 1
    /\ InRange(InRank, last.args[1])

\* Shape s with the entry of axis n replaced by the two entries x, y.
SplitAt(s, n, x, y) ==
    [k \in 1..(Len(s) + 1) |->
        IF k <= n THEN s[k]
        ELSE IF k = n + 1 THEN x
        ELSE IF k = n + 2 THEN y
        ELSE s[k - 1]]

(* C8.  For every shape of rank r >= 1, axis_source in [-r, r-1] (axis n)  *)
(* and inner size d, unpack_axis calls reshape once, and nothing else,     *)
(* with a shape of rank r + 1 that has its one wildcard at position n, d   *)
(* at position n + 1 and the other entries of the input unchanged and in   *)
(* order; when d divides the size of axis n the result is                  *)
(* (.., size / d, d, ..).                                                  *)
C8_UnpackSplitsAxis ==
    UnpackCalled =>
        LET n == AxisOf(InRank, last.args[1])
            d == last.args[2]
        IN /\ Len(last.lib) = 1
           /\ last.lib[1].fn = "reshape"
           /\ Len(last.lib[1].arg) = InRank + 1
           /\ last.lib[1].arg = SplitAt(last.in, n, -1, d)
           /\ {k \in 1..(InRank + 1) : last.lib[1].arg[k] = -1} = {n + 1}
           /\ last.in[n + 1] % d = 0 =>
                 /\ last.status = "ok"
                 /\ last.out = SplitAt(last.in, n, last.in[n + 1] \div d, d)

\* An inner axis of size 2 split off through a negative index, between
\* other axes.
C8_Witness ==
    /\ UnpackCalled
    /\ last.status = "ok"
    /\ InRank >= 3
    /\ last.args[1] = -2
    /\ last.args[2] = 2
    /\ Len(arr) = InRank + 1
    /\ arr[InRank - 1] = 1 /\ arr[InRank] = 2

(* C9.  On every shape of rank r >= 2 the wrappers succeed and act on the  *)
(* leading or trailing pair only: frontswap (A,B,..) -> (B,A,..), backswap *)
(* (..,A,B) -> (..,B,A), frontpack (A,B,..) -> (A*B,..), backpack          *)
(* (..,A,B) -> (..,A*B), the other entries unchanged and in order.         *)
C9_WrappersActOnEndPairs ==
    (InRank >= 2 /\ last.op \in {"frontswap", "backswap", "frontpack", "backpack"}) =>
        LET s == last.in
            r == InRank
        IN /\ last.status = "ok"
           /\ last.op = "frontswap" =>
                 last.out = <<s[2], s[1]>> \o SubSeq(s, 3, r)
           /\ last.op = "backswap" =>
                 last.out = SubSeq(s, 1, r - 2) \o <<s[r], s[r - 1]>>
           /\ last.op = "frontpack" =>
                 last.out = <<s[1] * s[2]>> \o SubSeq(s, 3, r)
           /\ last.op = "backpack" =>
                 last.out = SubSeq(s, 1, r - 2) \o <<s[r - 1] * s[r]>>

\* backpack on a shape whose leading and trailing pairs differ.
C9_Witness ==
    /\ last.op = "backpack"
    /\ last.status = "ok"
    /\ InRank >= 3
    /\ last.in[1] # last.in[InRank]
    /\ arr[Len(arr)] = 4
    /\ arr[1] = 1

(* C10.  For r >= 1 and raw idx0, idx1 in [-r, r-1] naming axes n0, n1,    *)
(* get_popinsert_permutation(r, idx0, idx1) is a bijection on 0..r-1 of    *)
(* length r with n0 at position n1 and the other axes, in increasing       *)
(* order, at the remaining positions; it is the identity when n0 = n1.     *)
C10_PopinsertPermutation ==
    ( /\ last.op = "get_popinsert_permutation"
      /\ last.args[1] >= 1
      /\ InRange(last.args[1], last.args[2])
      /\ InRange(last.args[1], last.args[3]) )
    => LET r  == last.args[1]
           n0 == AxisOf(r, last.args[2])
           n1 == AxisOf(r, last.args[3])
           p  == last.out
       IN /\ last.status = "ok"
          /\ Len(p) = r
          /\ IsPermutation(p, r)
          /\ p[n1 + 1] = n0
          /\ \A i, j \in (1..r) \ {n1 + 1} : i < j => p[i] < p[j]
          /\ n0 = n1 => p = Range(r)

\* An axis moved forward past two others, through a negative index.
C10_Witness ==
    /\ last.op = "get_popinsert_permutation"
    /\ last.status = "ok"
    /\ last.args[1] >= 4
    /\ last.args[2] = 0
    /\ last.args[3] = -2
    /\ last.out = <<1, 2, 0>> \o [k \in 1..(last.args[1] - 3) |-> k + 2]

====
